---------------------------- MODULE Spec2Model ----------------------------
(***************************************************************************)
(* A model of the TradingView webhook bot of src/app.py: the /tv handler,  *)
(* its sizing and cooldown helpers, and the Positions / PnL / raw-log tabs *)
(* of the Google Sheet it uses as a ledger.                                *)
(*                                                                         *)
(* Units.  Money is in cents and the clock in seconds, so that the floats  *)
(* of the code become integers: a price of 10.00 is 1000.  A stop price is *)
(* kept in 1/100 of a cent (the code rounds it to 4 decimals).             *)
(*                                                                         *)
(* A JSON field of the request body is a record [t, v]: t = "absent" (the  *)
(* key is missing or null), "num" (a number v), "numstr" (a string that    *)
(* float() parses to v) or "str" (a string float() rejects).               *)
(*                                                                         *)
(* A sheet cell is <<>> (the empty string) or <<v>> (the text of v).       *)
(***************************************************************************)
EXTENDS Integers, Sequences, FiniteSets, TLC

VARIABLES
    cfg,              \* the configuration read from the environment at import
    now,              \* time.time(), in whole seconds
    last_global_ts,   \* _last_global_ts
    last_symbol_ts,   \* _last_symbol_ts
    positions,        \* rows of the Positions tab, below its header
    pnl,              \* rows of the PnL tab, below its header
    daily,            \* rows of the Daily tab, below its header
    raw,              \* rows of the raw log tab, below its header
    orders,           \* order requests POSTed to the broker, with the answer
    token_refreshes,  \* token requests sent to the broker's login server
    pos_reads,        \* reads of the Positions tab
    resps,            \* the responses returned so far, in order of completion
    threads           \* the requests being handled by the worker threads

vars == <<cfg, now, last_global_ts, last_symbol_ts, positions, pnl, daily, raw,
          orders, token_refreshes, pos_reads, resps, threads>>

-----------------------------------------------------------------------------
(* Bounds of the model *)

MaxRequests == 3
MaxTicks == 2
\* the requests of a concurrent run
MaxConcRequests == 2
\* the length of a cooldown, when one is configured
CooldownSec == 2

(* Program constants *)

DefaultStopPct == 2
DefaultPositionDollars == 100000
DefaultRiskPerTrade == 5000

(* time.time() at start-up.  _last_global_ts starts at 0.0 and the epoch   *)
(* clock is far beyond any cooldown, so no cooldown is active at start-up. *)
StartTime == CooldownSec + 1

Symbols == {"A", "B"}
Threads == {1, 2}

Absent == [t |-> "absent", v |-> 0]
Num(n) == [t |-> "num", v |-> n]
NumStr(n) == [t |-> "numstr", v |-> n]
Str == [t |-> "str", v |-> 0]

Empty == <<>>
Cell(v) == <<v>>

-----------------------------------------------------------------------------
(* Python helpers *)

Max(a, b) == IF a >= b THEN a ELSE b

\* math.floor(a / b) for b > 0
FloorDiv(a, b) == a \div b

\* round(a / b) to the nearest integer, b > 0, ties to even as Python rounds
RoundDiv(a, b) ==
    LET q == a \div b
        r == a % b
    IN  IF 2 * r < b THEN q
        ELSE IF 2 * r > b THEN q + 1
        ELSE IF q % 2 = 0 THEN q ELSE q + 1

\* str(x).upper().strip() on the symbols and events the model sends
upper_strip(s) ==
    CASE s \in {"A", "a"} -> "A"
      [] s \in {"B", " b "} -> "B"
      [] s \in {"BUY", "buy"} -> "BUY"
      [] s \in {"EXIT", " exit"} -> "EXIT"
      [] OTHER -> s

\* str(x).lower().strip() on the sides the model sends
lower_strip(s) ==
    CASE s \in {"long", "LONG", " long "} -> "long"
      [] OTHER -> s

\* a slip: the value stored in the sheet is not used
CellOr_default(c, d) == d

\* x or d, for a cell read from the sheet: the empty string is falsy
CellOr(c, d) == IF c = Empty THEN d ELSE c[1]

-----------------------------------------------------------------------------
(* Position sizing / stop *)

\* calc_stop_price: price * (1 - pct/100), in 1/100 of a cent
calc_stop_price(price, risk_stop_pct) == price * (100 - risk_stop_pct)

\* a slip: MAX_POSITION_USD is not applied
calc_shares_unclamped(c, price, risk_stop_pct) ==
    IF price <= 0
    THEN [shares |-> 0, position_value |-> 0, risk_usd |-> 0, note |-> "invalid_price"]
    ELSE
    IF c.USE_RISK_SIZING /\ price * risk_stop_pct <= 0
    THEN [shares |-> 0, position_value |-> 0, risk_usd |-> 0, note |-> "invalid_stop_dist"]
    ELSE
    LET stop_num == price * risk_stop_pct
        shares == IF c.USE_RISK_SIZING
                  THEN Max(1, FloorDiv(c.RISK_PER_TRADE * 100, stop_num))
                  ELSE Max(1, FloorDiv(c.POSITION_DOLLARS, price))
    IN  [shares |-> shares,
         position_value |-> shares * price,
         risk_usd |-> IF c.USE_RISK_SIZING THEN RoundDiv(shares * stop_num, 100)
                      ELSE c.RISK_PER_TRADE,
         note |-> IF c.USE_RISK_SIZING THEN "risk" ELSE "fixed"]

calc_shares(c, price, risk_stop_pct) ==
    IF price <= 0
    THEN [shares |-> 0, position_value |-> 0, risk_usd |-> 0, note |-> "invalid_price"]
    ELSE
    IF c.USE_RISK_SIZING /\ price * risk_stop_pct <= 0
    THEN [shares |-> 0, position_value |-> 0, risk_usd |-> 0, note |-> "invalid_stop_dist"]
    ELSE
    LET \* stop_dist = price * pct / 100, kept as the numerator over 100
        stop_num == price * risk_stop_pct
        shares0 == IF c.USE_RISK_SIZING
                   THEN Max(1, FloorDiv(c.RISK_PER_TRADE * 100, stop_num))
                   ELSE Max(1, FloorDiv(c.POSITION_DOLLARS, price))
        value0 == shares0 * price
        clamp == c.MAX_POSITION_USD > 0 /\ value0 > c.MAX_POSITION_USD
        shares == IF clamp THEN Max(1, FloorDiv(c.MAX_POSITION_USD, price)) ELSE shares0
        risk == IF c.USE_RISK_SIZING
                THEN RoundDiv(shares * stop_num, 100)
                ELSE c.RISK_PER_TRADE
    IN  [shares |-> shares,
         position_value |-> shares * price,
         risk_usd |-> risk,
         note |-> IF c.USE_RISK_SIZING
                  THEN (IF clamp THEN "risk+clamped" ELSE "risk")
                  ELSE (IF clamp THEN "fixed+clamped" ELSE "fixed")]

-----------------------------------------------------------------------------
(* Cooldowns (in-memory) *)

\* a slip: the global cooldown is not consulted
cooldown_block_symbol_only(E, symbol) ==
    IF E.cfg.SYMBOL_COOLDOWN_SEC > 0
       /\ E.now - (IF symbol \in DOMAIN E.last_symbol_ts
                   THEN E.last_symbol_ts[symbol] ELSE 0) < E.cfg.SYMBOL_COOLDOWN_SEC
    THEN "symbol"
    ELSE ""

\* cooldown_block: "" stands for None
cooldown_block(E, symbol) ==
    IF E.cfg.GLOBAL_COOLDOWN_SEC > 0 /\ E.now - E.last_global_ts < E.cfg.GLOBAL_COOLDOWN_SEC
    THEN "global"
    ELSE IF E.cfg.SYMBOL_COOLDOWN_SEC > 0
            /\ E.now - (IF symbol \in DOMAIN E.last_symbol_ts
                        THEN E.last_symbol_ts[symbol] ELSE 0) < E.cfg.SYMBOL_COOLDOWN_SEC
    THEN "symbol"
    ELSE ""

\* a slip: only a simulated request starts the cooldown window
cooldown_mark_dry_only(E, symbol) ==
    IF E.cfg.DRY_RUN
    THEN [E EXCEPT !.last_global_ts = E.now,
                   !.last_symbol_ts = [s \in (DOMAIN E.last_symbol_ts) \cup {symbol} |->
                                         IF s = symbol THEN E.now ELSE E.last_symbol_ts[s]]]
    ELSE E

\* a slip: the per-symbol timestamp is not set
cooldown_mark_global_only(E, symbol) ==
    [E EXCEPT !.last_global_ts = E.now]

cooldown_mark(E, symbol) ==
    [E EXCEPT !.last_global_ts = E.now,
              !.last_symbol_ts = [s \in (DOMAIN E.last_symbol_ts) \cup {symbol} |->
                                    IF s = symbol THEN E.now ELSE E.last_symbol_ts[s]]]

-----------------------------------------------------------------------------
(* Google Sheets helpers.  E is the state of the program and of its        *)
(* collaborators: a record with one field per variable the handler reads.  *)

\* append_row: nothing when Sheets logging is off
append_row(E, tab, row) ==
    IF ~E.cfg.SHEETS_ON THEN E
    ELSE CASE tab = "raw" -> [E EXCEPT !.raw = Append(@, row)]
           [] tab = "pnl" -> [E EXCEPT !.pnl = Append(@, row)]
           [] tab = "positions" -> [E EXCEPT !.positions = Append(@, row)]

\* update_row on the Positions tab: row_index_1based counts the header row
update_row(E, row_index_1based, row) ==
    [E EXCEPT !.positions = [i \in 1..Max(Len(@), row_index_1based - 1) |->
                               IF i = row_index_1based - 1 THEN row ELSE @[i]]]

NoRecord == [found |-> FALSE]

\* pos_get: the first row of the Positions tab with this symbol, or None
pos_get(E, symbol) ==
    IF ~E.cfg.SHEETS_ON THEN NoRecord
    ELSE LET hits == {i \in 1..Len(E.positions) : E.positions[i].symbol = symbol}
         IN  IF hits = {} THEN NoRecord
             ELSE LET i == CHOOSE j \in hits : \A k \in hits : j <= k
                  IN  [found |-> TRUE, row |-> E.positions[i], row_index_1based |-> i + 1]

\* the read of the Positions tab that pos_get makes, as seen by the sheet
pos_get_call(E) ==
    IF E.cfg.SHEETS_ON THEN [E EXCEPT !.pos_reads = @ + 1] ELSE E

\* the row pos_set writes
pos_set_row(E, L, notes) ==
    [symbol |-> L.symbol, state |-> "LONG",
     entry_time |-> Cell(L.entry_time), entry_price |-> Cell(L.price.v),
     shares |-> Cell(L.sz.shares), position_value |-> Cell(L.sz.position_value),
     stop_price |-> Cell(L.stop_price), risk_usd |-> Cell(L.sz.risk_usd),
     last_event |-> "ENTRY", last_update |-> E.now,
     trade_id |-> Cell(L.trade_id), notes |-> notes]

\* a slip: the entry price of the closed trade is left in the row
pos_flat_row_stale(E, L, notes) ==
    [symbol |-> L.symbol, state |-> "FLAT",
     entry_time |-> Empty,
     entry_price |-> IF L.existing.found THEN L.existing.row.entry_price ELSE Empty,
     shares |-> Empty, position_value |-> Empty,
     stop_price |-> Empty, risk_usd |-> Empty,
     last_event |-> "EXIT", last_update |-> E.now,
     trade_id |-> IF L.existing.found THEN L.existing.row.trade_id ELSE Empty,
     notes |-> notes]

\* a slip: the state of the row found is written back
pos_flat_row_keeps_state(E, L, notes) ==
    [symbol |-> L.symbol,
     state |-> IF L.existing.found THEN L.existing.row.state ELSE "FLAT",
     entry_time |-> Empty, entry_price |-> Empty,
     shares |-> Empty, position_value |-> Empty,
     stop_price |-> Empty, risk_usd |-> Empty,
     last_event |-> "EXIT", last_update |-> E.now,
     trade_id |-> IF L.existing.found THEN L.existing.row.trade_id ELSE Empty,
     notes |-> notes]

\* the row pos_flat writes: the trade id of the record it found is kept
pos_flat_row(E, L, notes) ==
    [symbol |-> L.symbol, state |-> "FLAT",
     entry_time |-> Empty, entry_price |-> Empty,
     shares |-> Empty, position_value |-> Empty,
     stop_price |-> Empty, risk_usd |-> Empty,
     last_event |-> "EXIT", last_update |-> E.now,
     trade_id |-> IF L.existing.found THEN L.existing.row.trade_id ELSE Empty,
     notes |-> notes]

\* the tail of pos_set and of pos_flat: update the row found, or append
pos_write(E, existing, row) ==
    IF existing.found
    THEN update_row(E, existing.row_index_1based, row)
    ELSE append_row(E, "positions", row)

\* the row tv appends to the raw log tab
raw_row(E, L, shares, position_value, stop_price, risk_usd, status, note) ==
    [timestamp |-> E.now, symbol |-> L.symbol, event |-> L.event, mapped |-> L.mapped,
     side |-> L.side, price |-> IF L.price.has THEN Cell(L.price.v) ELSE Empty,
     shares |-> shares, position_value |-> position_value,
     stop_price |-> stop_price, risk_usd |-> risk_usd,
     status |-> status, note |-> note]

DateOf(t) == t \div 86400

\* append_pnl_row
append_pnl_row(E, trade_id, symbol, entry_time, exit_time, entry_price, exit_price, shares, position_value, notes) ==
    append_row(E, "pnl",
        [trade_id |-> trade_id, date |-> DateOf(E.now), symbol |-> symbol,
         entry_time |-> entry_time, exit_time |-> exit_time,
         entry_price |-> entry_price, exit_price |-> exit_price,
         shares |-> shares, position_value |-> position_value,
         gross_pnl |-> (exit_price - entry_price) * shares,
         pnl_per_share |-> exit_price - entry_price,
         return_pct |-> IF entry_price > 0
                        THEN RoundDiv((exit_price - entry_price) * 1000000, entry_price)
                        ELSE 0,
         notes |-> notes])

RECURSIVE SortedSeq(_)
SortedSeq(S) ==
    IF S = {} THEN <<>>
    ELSE LET m == CHOOSE x \in S : \A y \in S : x <= y
         IN  <<m>> \o SortedSeq(S \ {m})

RECURSIVE SumSeq(_)
SumSeq(q) == IF q = <<>> THEN 0 ELSE q[1] + SumSeq(Tail(q))

\* recompute_daily_from_pnl: the Daily tab is rewritten from the PnL tab
recompute_daily_from_pnl(E) ==
    IF ~E.cfg.SHEETS_ON THEN E
    ELSE LET dates == SortedSeq({E.pnl[i].date : i \in 1..Len(E.pnl)})
             Of(d) == SelectSeq(E.pnl, LAMBDA r : r.date = d)
             Pnls(d) == [i \in 1..Len(Of(d)) |-> Of(d)[i].gross_pnl]
         IN  [E EXCEPT !.daily =
                 [k \in 1..Len(dates) |->
                    [date |-> dates[k],
                     trades |-> Len(Of(dates[k])),
                     gross_pnl |-> SumSeq(Pnls(dates[k])),
                     wins |-> Len(SelectSeq(Pnls(dates[k]), LAMBDA x : x > 0)),
                     losses |-> Len(SelectSeq(Pnls(dates[k]), LAMBDA x : x < 0))]]]

-----------------------------------------------------------------------------
(* The /tv route.  L holds the locals of one request: its position pc in   *)
(* the handler, the request req, the parsed fields and what it has read.   *)
(* Each step below maps (E, L) to [env, loc]; a step ends at a call of the *)
(* ledger or of the broker, where another thread can run.                  *)

NoPrice == [has |-> FALSE, v |-> 0]
NoSizing == [shares |-> 0, position_value |-> 0, risk_usd |-> 0, note |-> ""]
NoResp == [code |-> 0, ok |-> FALSE, ignored |-> FALSE, kind |-> "", reason |-> "",
           shares |-> 0, gross_pnl |-> 0]

Resp(code, ok, kind, reason) ==
    [NoResp EXCEPT !.code = code, !.ok = ok, !.kind = kind, !.reason = reason]

NewRequest(req) ==
    [pc |-> "start", req |-> req,
     symbol |-> "", event |-> "", side |-> "", risk_stop_pct |-> 0, price |-> NoPrice,
     mapped |-> "", current |-> NoRecord, existing |-> NoRecord,
     sz |-> NoSizing, stop_price |-> 0,
     trade_id |-> <<>>, entry_time |-> 0,
     entry_shares |-> 0, entry_price |-> NoPrice, entry_time_cell |-> Empty,
     gross_pnl |-> 0, resp |-> NoResp, pre |-> "FLAT"]

Return(E, L, resp) == [env |-> E, loc |-> [L EXCEPT !.pc = "done", !.resp = resp]]
Goto(E, L, pc) == [env |-> E, loc |-> [L EXCEPT !.pc = pc]]

\* float(data.get("risk_stop_pct", 2.0) or 2.0): None, 0 and 0.0 are falsy,
\* a string is not, and float() of a non-numeric string raises
stop_pct_raises(j) == j.t = "str"
stop_pct_of(j) ==
    CASE j.t = "absent" -> DefaultStopPct
      [] j.t = "num" -> IF j.v = 0 THEN DefaultStopPct ELSE j.v
      [] j.t = "numstr" -> j.v
      [] OTHER -> DefaultStopPct

\* price = float(price) if price is not None else None; None when float() raises
price_of(j) ==
    IF j.t \in {"num", "numstr"} THEN [has |-> TRUE, v |-> j.v] ELSE NoPrice

\* the event mapping: "" when the event is not supported
map_event(event) ==
    IF event \in {"BUY", "ENTRY"} THEN "ENTRY"
    ELSE IF event \in {"SELL", "EXIT"} THEN "EXIT"
    ELSE ""

\* a slip: the state check is made first, and a request it would ignore is
\* handed to it in spite of the cooldown
tv_cooldown_blocked_state_first(E, P, cd) ==
    LET current == pos_get(E, P.symbol)
        state == IF current.found /\ current.row.state # "" THEN current.row.state
                 ELSE "FLAT"
    IN  IF (P.mapped = "ENTRY" /\ state = "LONG") \/ (P.mapped = "EXIT" /\ state # "LONG")
        THEN Goto(E, P, "state_check")
        ELSE Return(append_row(E, "raw",
                        raw_row(E, P, Empty, Empty, Empty, Empty, "cooldown", cd)),
                    P, Resp(200, TRUE, "cooldown", cd))

\* a slip: the blocked request restarts the cooldown window
tv_cooldown_blocked_marks(E, P, cd) ==
    Return(cooldown_mark(append_row(E, "raw",
               raw_row(E, P, Empty, Empty, Empty, Empty, "cooldown", cd)), P.symbol),
           P, Resp(200, TRUE, "cooldown", cd))

\* tv, the branch taken when cooldown_block returns a reason
tv_cooldown_blocked(E, P, cd) ==
    Return(append_row(E, "raw",
               raw_row(E, P, Empty, Empty, Empty, Empty, "cooldown", cd)),
           P, Resp(200, TRUE, "cooldown", cd))

\* tv, from its first line to the cooldown check
tv_parse(E, L) ==
    LET req == L.req
        symbol == upper_strip(req.symbol)
        event == upper_strip(req.event)
        side == lower_strip(req.side)
        mapped == map_event(event)
        P == [L EXCEPT !.symbol = symbol, !.event = event, !.side = side,
                       !.risk_stop_pct = stop_pct_of(req.risk_stop_pct),
                       !.price = price_of(req.price), !.mapped = mapped]
        cd == cooldown_block(E, symbol)
    IN  IF req.method # "POST"
        THEN Return(E, L, Resp(405, FALSE, "method", "Use POST with JSON body"))
        ELSE IF ~req.json_ok
        THEN Return(E, L, Resp(400, FALSE, "bad_json", "Bad JSON"))
        ELSE IF stop_pct_raises(req.risk_stop_pct)
        THEN Return(E, [L EXCEPT !.symbol = symbol, !.event = event, !.side = side],
                    Resp(500, FALSE, "unhandled", "ValueError"))
        ELSE IF symbol = ""
        THEN Return(E, P, Resp(400, FALSE, "rejected", "Missing symbol"))
        ELSE IF side # "long"
        THEN Return(E, P, Resp(400, FALSE, "rejected", "Only long side supported"))
        ELSE IF mapped = ""
        THEN Return(E, P, Resp(400, FALSE, "rejected", "Unsupported event"))
        ELSE IF cd # ""
        THEN tv_cooldown_blocked(E, P, cd)
        ELSE Goto(E, P, "state_check")

\* a slip: the DRY_RUN flag is not consulted
tv_branch_live_only(E, L) ==
    IF L.mapped = "ENTRY" THEN "broker" ELSE "live_exit_read"

\* the pc a request goes to once it is accepted
tv_branch(E, L) ==
    IF E.cfg.DRY_RUN
    THEN IF L.mapped = "ENTRY" THEN "pos_set_read" ELSE "exit_log"
    ELSE IF L.mapped = "ENTRY" THEN "broker" ELSE "live_exit_read"

\* a slip: the stored state is not consulted
state_of_always_flat(current) == "FLAT"

\* a slip: a symbol with no record counts as an open position
state_of_default_long(current) ==
    IF current.found /\ current.row.state # "" THEN current.row.state ELSE "LONG"

\* a slip: any record found counts as an open position
state_of_any_record(current) == IF current.found THEN "LONG" ELSE "FLAT"

\* state = (current.get("state") if current else "FLAT") or "FLAT"
state_of(current) ==
    IF current.found /\ current.row.state # "" THEN current.row.state ELSE "FLAT"

\* a slip: cooldown_mark is called before the price is checked
tv_state_check_marks_first(E, L) ==
    LET E1 == pos_get_call(E)
        current == pos_get(E, L.symbol)
        state == IF current.found /\ current.row.state # "" THEN current.row.state
                 ELSE "FLAT"
        C == [L EXCEPT !.current = current]
        sz == calc_shares(E.cfg, L.price.v, L.risk_stop_pct)
        A == [C EXCEPT !.sz = sz,
                       !.stop_price = calc_stop_price(L.price.v, L.risk_stop_pct)]
    IN  IF L.mapped = "ENTRY" /\ state = "LONG"
        THEN Return(append_row(E1, "raw",
                        raw_row(E, C, Empty, Empty, Empty, Empty, "ignored",
                                "Already in position (LONG)")),
                    C, [Resp(200, TRUE, "ignored", "Already in position (LONG)")
                          EXCEPT !.ignored = TRUE])
        ELSE IF L.mapped = "EXIT" /\ state # "LONG"
        THEN Return(append_row(E1, "raw",
                        raw_row(E, C, Empty, Empty, Empty, Empty, "ignored",
                                "No open position to exit")),
                    C, [Resp(200, TRUE, "ignored", "No open position to exit")
                          EXCEPT !.ignored = TRUE])
        ELSE IF ~L.price.has
        THEN Return(cooldown_mark(append_row(E1, "raw",
                        raw_row(E, C, Empty, Empty, Empty, Empty, "error", "Missing price")),
                        L.symbol),
                    C, Resp(400, FALSE, "missing_price", "Missing price"))
        ELSE Goto(cooldown_mark(E1, L.symbol), A,
                  IF E.cfg.DRY_RUN
                  THEN (IF L.mapped = "ENTRY" THEN "pos_set_read" ELSE "exit_log")
                  ELSE (IF L.mapped = "ENTRY" THEN "broker" ELSE "live_exit_read"))

\* tv, from the read of the position to cooldown_mark
tv_state_check(E, L) ==
    LET E1 == pos_get_call(E)
        current == pos_get(E, L.symbol)
        state == state_of(current)
        C == [L EXCEPT !.current = current]
        sz == calc_shares(E.cfg, L.price.v, L.risk_stop_pct)
        A == [C EXCEPT !.sz = sz,
                       !.stop_price = calc_stop_price(L.price.v, L.risk_stop_pct)]
    IN  IF L.mapped = "ENTRY" /\ state = "LONG"
        THEN Return(append_row(E1, "raw",
                        raw_row(E, C, Empty, Empty, Empty, Empty, "ignored",
                                "Already in position (LONG)")),
                    C, [Resp(200, TRUE, "ignored", "Already in position (LONG)")
                          EXCEPT !.ignored = TRUE])
        ELSE IF L.mapped = "EXIT" /\ state # "LONG"
        THEN Return(append_row(E1, "raw",
                        raw_row(E, C, Empty, Empty, Empty, Empty, "ignored",
                                "No open position to exit")),
                    C, [Resp(200, TRUE, "ignored", "No open position to exit")
                          EXCEPT !.ignored = TRUE])
        ELSE IF ~L.price.has
        THEN Return(append_row(E1, "raw",
                        raw_row(E, C, Empty, Empty, Empty, Empty, "error", "Missing price")),
                    C, Resp(400, FALSE, "missing_price", "Missing price"))
        ELSE IF E.cfg.DRY_RUN /\ L.mapped = "EXIT" /\ ~current.found
        THEN Return(cooldown_mark(E1, L.symbol), A,
                    [Resp(200, TRUE, "ignored", "No position record") EXCEPT !.ignored = TRUE])
        ELSE Goto(cooldown_mark(E1, L.symbol), A, tv_branch(E, A))

\* a slip: the failure of the order is swallowed and the handler goes on
tv_broker_swallows(E, L) ==
    LET action == IF L.mapped = "ENTRY" THEN "BUY" ELSE "SELL"
        shares == IF L.mapped = "ENTRY" THEN L.sz.shares ELSE L.entry_shares
        E1 == [E EXCEPT !.token_refreshes = @ + 1]
        order == [symbol |-> L.symbol, action |-> action, shares |-> shares,
                  ok |-> L.req.broker = "ok"]
        E2 == IF L.req.broker = "auth_fail" THEN E1
              ELSE [E1 EXCEPT !.orders = Append(@, order)]
    IN  Goto(E2, L, IF L.mapped = "ENTRY" THEN "pos_set_read" ELSE "exit_log")

\* qt_place_market_order and the except branch of tv.  The broker's answer
\* is req.broker: "ok", "auth_fail" (the token request is refused, no order
\* is sent) or "rejected" (the order is sent and answered with an error).
tv_broker(E, L) ==
    LET action == IF L.mapped = "ENTRY" THEN "BUY" ELSE "SELL"
        shares == IF L.mapped = "ENTRY" THEN L.sz.shares ELSE L.entry_shares
        E1 == [E EXCEPT !.token_refreshes = @ + 1]
        order == [symbol |-> L.symbol, action |-> action, shares |-> shares,
                  ok |-> L.req.broker = "ok"]
        E2 == IF L.req.broker = "auth_fail" THEN E1
              ELSE [E1 EXCEPT !.orders = Append(@, order)]
    IN  IF L.req.broker = "ok"
        THEN Goto(E2, L, IF L.mapped = "ENTRY" THEN "pos_set_read" ELSE "exit_log")
        ELSE Return(append_row(E2, "raw",
                        raw_row(E, L, Cell(L.sz.shares), Cell(L.sz.position_value),
                                Cell(L.stop_price), Cell(L.sz.risk_usd),
                                "error", L.req.broker)),
                    L, Resp(500, FALSE, "order_failed", L.req.broker))

\* the end of an ENTRY: the raw log row and the response
tv_entry_done(E, L) ==
    IF E.cfg.DRY_RUN
    THEN Return(append_row(E, "raw",
                    raw_row(E, L, Cell(L.sz.shares), Cell(L.sz.position_value),
                            Cell(L.stop_price), Cell(L.sz.risk_usd), "dry_run", L.sz.note)),
                L, [Resp(200, TRUE, "dry_run", "") EXCEPT !.shares = L.sz.shares])
    ELSE Return(append_row(E, "raw",
                    raw_row(E, L, Cell(L.sz.shares), Cell(L.sz.position_value),
                            Cell(L.stop_price), Cell(L.sz.risk_usd), "live_entry", "Order sent")),
                L, [Resp(200, TRUE, "live", "") EXCEPT !.shares = L.sz.shares])

\* ENTRY: the trade id, and pos_set up to its read of the Positions tab
tv_pos_set_read(E, L) ==
    LET T == [L EXCEPT !.trade_id = <<L.symbol, E.now>>, !.entry_time = E.now]
    IN  IF ~E.cfg.SHEETS_ON
        THEN tv_entry_done(E, T)
        ELSE Goto(pos_get_call(E), [T EXCEPT !.existing = pos_get(E, L.symbol)],
                  "pos_set_write")

\* ENTRY: the write of pos_set, then the raw log row and the response
tv_pos_set_write(E, L) ==
    tv_entry_done(
        pos_write(E, L.existing,
                  pos_set_row(E, L, IF E.cfg.DRY_RUN THEN L.sz.note ELSE "LIVE")),
        L)

\* a slip: the SELL order is for the shares sized from the EXIT signal
tv_live_exit_read_fresh(E, L) ==
    LET current == pos_get(E, L.symbol)
        fresh == <<L.symbol, E.now>>
    IN  Goto(pos_get_call(E),
             [L EXCEPT !.current = current,
                       !.entry_shares = L.sz.shares,
                       !.entry_price = IF current.found
                                       THEN [has |-> TRUE,
                                             v |-> IF current.row.entry_price = Empty THEN 0
                                                   ELSE current.row.entry_price[1]]
                                       ELSE NoPrice,
                       !.entry_time_cell = IF current.found THEN current.row.entry_time
                                           ELSE Empty,
                       !.trade_id = IF current.found /\ current.row.trade_id # Empty
                                    THEN current.row.trade_id[1] ELSE fresh],
             "broker")

\* live EXIT: the second read of the position, before the SELL order
tv_live_exit_read(E, L) ==
    LET current == pos_get(E, L.symbol)
        fresh == <<L.symbol, E.now>>
    IN  Goto(pos_get_call(E),
             IF current.found
             THEN [L EXCEPT !.current = current,
                            !.entry_shares = CellOr(current.row.shares, L.sz.shares),
                            !.entry_price = [has |-> TRUE,
                                             v |-> CellOr(current.row.entry_price, 0)],
                            !.entry_time_cell = current.row.entry_time,
                            !.trade_id = CellOr(current.row.trade_id, fresh)]
             ELSE [L EXCEPT !.current = current,
                            !.entry_shares = L.sz.shares,
                            !.entry_price = NoPrice,
                            !.entry_time_cell = Empty,
                            !.trade_id = fresh],
             "broker")

\* EXIT: the raw log row and the PnL row
tv_exit_log(E, L) ==
    IF E.cfg.DRY_RUN
    THEN LET row == L.current.row
             entry_price == CellOr(row.entry_price, 0)
             entry_shares == CellOr(row.shares, 0)
             trade_id == CellOr(row.trade_id, <<L.symbol, E.now>>)
             gross_pnl == IF entry_shares # 0
                          THEN (L.price.v - entry_price) * entry_shares ELSE 0
             X == [L EXCEPT !.entry_price = [has |-> TRUE, v |-> entry_price],
                            !.entry_shares = entry_shares,
                            !.entry_time_cell = row.entry_time,
                            !.trade_id = trade_id,
                            !.gross_pnl = gross_pnl]
             E1 == append_row(E, "raw",
                       raw_row(E, L, Cell(entry_shares), Cell(entry_shares * L.price.v),
                               Empty, Empty, "dry_run_exit", "dry_run_exit_pnl"))
         IN  Goto(append_pnl_row(E1, trade_id, L.symbol, row.entry_time, E.now,
                                 entry_price, L.price.v, entry_shares,
                                 entry_shares * entry_price, "dry_run"),
                  X, "pos_flat_read")
    ELSE LET E1 == append_row(E, "raw",
                       raw_row(E, L, Cell(L.entry_shares), Cell(L.entry_shares * L.price.v),
                               Empty, Empty, "live_exit", "Order sent"))
         IN  IF L.entry_price.has /\ L.entry_shares # 0
             THEN Goto(recompute_daily_from_pnl(
                           append_pnl_row(E1, L.trade_id, L.symbol, L.entry_time_cell, E.now,
                                          L.entry_price.v, L.price.v, L.entry_shares,
                                          L.entry_price.v * L.entry_shares, "live")),
                       L, "pos_flat_read")
             ELSE Goto(E1, L, "pos_flat_read")

\* the end of an EXIT: the Daily tab in a dry run, and the response
tv_exit_done(E, L) ==
    IF E.cfg.DRY_RUN
    THEN Return(recompute_daily_from_pnl(E), L,
                [Resp(200, TRUE, "dry_run", "") EXCEPT !.shares = L.entry_shares,
                                                       !.gross_pnl = L.gross_pnl])
    ELSE Return(E, L, [Resp(200, TRUE, "live", "") EXCEPT !.shares = L.entry_shares])

\* EXIT: pos_flat up to its read of the Positions tab
tv_pos_flat_read(E, L) ==
    IF ~E.cfg.SHEETS_ON
    THEN tv_exit_done(E, L)
    ELSE Goto(pos_get_call(E), [L EXCEPT !.existing = pos_get(E, L.symbol)],
              "pos_flat_write")

\* EXIT: the write of pos_flat, then the response
tv_pos_flat_write(E, L) ==
    tv_exit_done(
        pos_write(E, L.existing,
                  pos_flat_row(E, L, IF E.cfg.DRY_RUN THEN "closed in dry_run"
                                     ELSE "closed live")),
        L)

\* one step of the handler
tv_step(E, L) ==
    CASE L.pc = "start" -> tv_parse(E, L)
      [] L.pc = "state_check" -> tv_state_check(E, L)
      [] L.pc = "broker" -> tv_broker(E, L)
      [] L.pc = "pos_set_read" -> tv_pos_set_read(E, L)
      [] L.pc = "pos_set_write" -> tv_pos_set_write(E, L)
      [] L.pc = "live_exit_read" -> tv_live_exit_read(E, L)
      [] L.pc = "exit_log" -> tv_exit_log(E, L)
      [] L.pc = "pos_flat_read" -> tv_pos_flat_read(E, L)
      [] L.pc = "pos_flat_write" -> tv_pos_flat_write(E, L)

\* the handler run from L to its response with no other thread in between
RECURSIVE tv(_, _)
tv(E, L) ==
    IF L.pc = "done" THEN [env |-> E, loc |-> L]
    ELSE LET r == tv_step(E, L) IN tv(r.env, r.loc)

-----------------------------------------------------------------------------
(* The requests and the configurations the model draws from *)

Configs ==
    {c \in [DRY_RUN : BOOLEAN, SHEETS_ON : BOOLEAN, USE_RISK_SIZING : {FALSE},
            POSITION_DOLLARS : {DefaultPositionDollars},
            RISK_PER_TRADE : {DefaultRiskPerTrade},
            MAX_POSITION_USD : {0},
            GLOBAL_COOLDOWN_SEC : {0, CooldownSec},
            SYMBOL_COOLDOWN_SEC : {0, CooldownSec}] :
        c.GLOBAL_COOLDOWN_SEC = 0 \/ c.SYMBOL_COOLDOWN_SEC = 0}

BrokerAnswers == {"ok", "auth_fail", "rejected"}

Signal(symbol, event, side, price, broker) ==
    [method |-> "POST", json_ok |-> TRUE, symbol |-> symbol, event |-> event,
     side |-> side, risk_stop_pct |-> Absent, price |-> price, broker |-> broker]

\* well-formed signals, in the spellings the normalisation accepts
GoodRequests ==
    {Signal("A", e, "long", Num(1000), b) : e \in {"buy", " exit"}, b \in BrokerAnswers}
    \cup {Signal("a", e, "LONG", Num(1050), "ok") : e \in {"BUY", "EXIT"}}
    \cup {Signal(" b ", e, " long ", NumStr(1000), "ok") : e \in {"ENTRY", "SELL"}}

\* signals with one field missing or malformed
OddRequests ==
    LET base == Signal("A", "BUY", "long", Num(1000), "ok")
    IN  {[base EXCEPT !.symbol = ""], [base EXCEPT !.side = "short"],
         [base EXCEPT !.event = "HOLD"],
         [base EXCEPT !.risk_stop_pct = Str],
         [base EXCEPT !.symbol = "", !.risk_stop_pct = Str],
         [base EXCEPT !.price = Absent],
         [base EXCEPT !.price = Absent, !.event = "SELL"],
         [base EXCEPT !.price = Num(0)]}

Requests == GoodRequests \cup OddRequests

-----------------------------------------------------------------------------
(* The state machine *)

Idle == [pc |-> "idle"]

E0 == [cfg |-> cfg, now |-> now,
       last_global_ts |-> last_global_ts, last_symbol_ts |-> last_symbol_ts,
       positions |-> positions, pnl |-> pnl, daily |-> daily, raw |-> raw,
       orders |-> orders, token_refreshes |-> token_refreshes, pos_reads |-> pos_reads]

Install(E) ==
    /\ last_global_ts' = E.last_global_ts
    /\ last_symbol_ts' = E.last_symbol_ts
    /\ positions' = E.positions
    /\ pnl' = E.pnl
    /\ daily' = E.daily
    /\ raw' = E.raw
    /\ orders' = E.orders
    /\ token_refreshes' = E.token_refreshes
    /\ pos_reads' = E.pos_reads
    /\ UNCHANGED <<cfg, now>>

\* the state of the symbol's position in the Positions tab
LedgerState(rows, symbol) ==
    LET hits == {i \in 1..Len(rows) : rows[i].symbol = symbol}
    IN  IF hits = {} THEN "FLAT"
        ELSE LET i == CHOOSE j \in hits : \A k \in hits : j <= k
             IN  IF rows[i].state = "" THEN "FLAT" ELSE rows[i].state

\* what is recorded of a finished request: the signal as parsed, the response,
\* the state pre of the symbol's position when the request arrived and the
\* number of rows of the PnL tab when the response was sent
Summary(L, pre, trades) ==
    [symbol |-> L.symbol, mapped |-> L.mapped, priced |-> L.price.has,
     pre |-> pre, trades |-> trades,
     code |-> L.resp.code, ok |-> L.resp.ok, ignored |-> L.resp.ignored,
     kind |-> L.resp.kind, reason |-> L.resp.reason,
     shares |-> L.resp.shares, gross_pnl |-> L.resp.gross_pnl]

InFlight == {t \in Threads : threads[t].pc # "idle"}

Init ==
    /\ cfg \in Configs
    /\ now = StartTime
    /\ last_global_ts = 0
    /\ last_symbol_ts = << >>
    /\ positions = << >>
    /\ pnl = << >>
    /\ daily = << >>
    /\ raw = << >>
    /\ orders = << >>
    /\ token_refreshes = 0
    /\ pos_reads = 0
    /\ resps = << >>
    /\ threads = [t \in Threads |-> Idle]

\* a second passes
Tick ==
    /\ now < StartTime + MaxTicks
    /\ now' = now + 1
    /\ UNCHANGED <<cfg, last_global_ts, last_symbol_ts, positions, pnl, daily, raw,
                   orders, token_refreshes, pos_reads, resps, threads>>

\* a request is handled from its arrival to its response, alone
Handle(req) ==
    /\ Len(resps) < MaxRequests
    /\ InFlight = {}
    /\ LET r == tv(E0, NewRequest(req))
       IN  /\ Install(r.env)
           /\ resps' = Append(resps,
                  Summary(r.loc, LedgerState(positions, upper_strip(req.symbol)),
                          Len(r.env.pnl)))
    /\ UNCHANGED threads

Next ==
    \/ Tick
    \/ \E req \in Requests : Handle(req)

Spec == Init /\ [][Next]_vars

-----------------------------------------------------------------------------
(* The handler on worker threads: requests are handled concurrently, and a *)
(* thread can be preempted wherever the handler calls the sheet or the     *)
(* broker.                                                                 *)

\* the signals of the concurrent runs
ConcRequests ==
    {Signal("A", e, "long", Num(1000), "ok") : e \in {"buy", " exit"}}
    \cup {Signal("A", "buy", "long", Num(1000), "rejected"),
          Signal(" b ", "ENTRY", " long ", NumStr(1000), "ok")}

ConcConfigs == {c \in Configs : c.SHEETS_ON}

InitConc ==
    /\ Init
    /\ cfg \in ConcConfigs

\* thread t takes the step of the handler it stands at
Step(t) ==
    LET r == tv_step(E0, threads[t])
    IN  /\ Install(r.env)
        /\ IF r.loc.pc = "done"
           THEN /\ resps' = Append(resps, Summary(r.loc, r.loc.pre, Len(r.env.pnl)))
                /\ threads' = [threads EXCEPT ![t] = Idle]
           ELSE /\ threads' = [threads EXCEPT ![t] = r.loc]
                /\ UNCHANGED resps

\* a request arrives at an idle thread
Arrive(t, req) ==
    /\ threads[t].pc = "idle"
    /\ Len(resps) + Cardinality(InFlight) < MaxConcRequests
    /\ threads' = [threads EXCEPT ![t] =
           [NewRequest(req) EXCEPT !.pre = LedgerState(positions, upper_strip(req.symbol))]]
    /\ UNCHANGED <<cfg, now, last_global_ts, last_symbol_ts, positions, pnl, daily, raw,
                   orders, token_refreshes, pos_reads, resps>>

Parse(t) == threads[t].pc = "start" /\ Step(t)
StateCheck(t) == threads[t].pc = "state_check" /\ Step(t)
Broker(t) == threads[t].pc = "broker" /\ Step(t)
PosSetRead(t) == threads[t].pc = "pos_set_read" /\ Step(t)
PosSetWrite(t) == threads[t].pc = "pos_set_write" /\ Step(t)
LiveExitRead(t) == threads[t].pc = "live_exit_read" /\ Step(t)
ExitLog(t) == threads[t].pc = "exit_log" /\ Step(t)
PosFlatRead(t) == threads[t].pc = "pos_flat_read" /\ Step(t)
PosFlatWrite(t) == threads[t].pc = "pos_flat_write" /\ Step(t)

NextConc ==
    \/ Tick
    \/ \E t \in Threads, req \in ConcRequests : Arrive(t, req)
    \/ \E t \in Threads : Parse(t)
    \/ \E t \in Threads : StateCheck(t)
    \/ \E t \in Threads : Broker(t)
    \/ \E t \in Threads : PosSetRead(t)
    \/ \E t \in Threads : PosSetWrite(t)
    \/ \E t \in Threads : LiveExitRead(t)
    \/ \E t \in Threads : ExitLog(t)
    \/ \E t \in Threads : PosFlatRead(t)
    \/ \E t \in Threads : PosFlatWrite(t)

SpecConc == InitConc /\ [][NextConc]_vars

-----------------------------------------------------------------------------
(* The sizing engine, as the handler calls it: simulated ENTRY signals over *)
(* a range of prices and stop percentages, under both sizing modes, with    *)
(* and without the notional cap.  The raw log row and the Positions row of  *)
(* a simulated ENTRY record what calc_shares returned.                      *)

\* POSITION_DOLLARS, RISK_PER_TRADE and MAX_POSITION_USD, in cents
SizingConfigs ==
    [DRY_RUN : {TRUE}, SHEETS_ON : {TRUE}, USE_RISK_SIZING : BOOLEAN,
     POSITION_DOLLARS : {DefaultPositionDollars, 50},
     RISK_PER_TRADE : {DefaultRiskPerTrade},
     MAX_POSITION_USD : {0, 2000},
     GLOBAL_COOLDOWN_SEC : {0}, SYMBOL_COOLDOWN_SEC : {0}]

SizingPrices == {Num(1000), NumStr(333), Num(2500)}
SizingStopPcts == {Absent, Num(0), NumStr(0), Num(5), Num(-1)}

SizingRequests ==
    {[Signal("A", "BUY", "long", p, "ok") EXCEPT !.risk_stop_pct = s] :
        p \in SizingPrices, s \in SizingStopPcts}
    \cup {Signal("A", "SELL", "long", Num(1050), "ok")}

InitSizing ==
    /\ cfg \in SizingConfigs
    /\ now = StartTime
    /\ last_global_ts = 0
    /\ last_symbol_ts = << >>
    /\ positions = << >>
    /\ pnl = << >>
    /\ daily = << >>
    /\ raw = << >>
    /\ orders = << >>
    /\ token_refreshes = 0
    /\ pos_reads = 0
    /\ resps = << >>
    /\ threads = [t \in Threads |-> Idle]

NextSizing == \E req \in SizingRequests : Handle(req)

SpecSizing == InitSizing /\ [][NextSizing]_vars

-----------------------------------------------------------------------------
(* Properties *)

Last == resps[Len(resps)]
Prev == resps[Len(resps) - 1]

\* the request was answered by a simulated or a live execution
Executed(r) == r.kind \in {"dry_run", "live"}

\* a signal with a symbol, the long side, a supported event and a price
WellFormed(r) == r.symbol # "" /\ r.mapped # "" /\ r.kind # "rejected" /\ r.priced

LongRows(s) ==
    {i \in 1..Len(positions) : positions[i].symbol = s /\ positions[i].state = "LONG"}

\* the last two requests are well-formed signals for the event, for one symbol
\* whose position was in state pre when the first arrived
TwoConsecutive(event, pre) ==
    /\ Len(resps) >= 2
    /\ WellFormed(Prev) /\ WellFormed(Last)
    /\ Prev.mapped = event /\ Last.mapped = event
    /\ Prev.symbol = Last.symbol
    /\ Prev.pre = pre

\* the rows of the PnL tab before the last two requests
TradesBeforeLastTwo == IF Len(resps) = 2 THEN 0 ELSE resps[Len(resps) - 2].trades

\* every position opened so far was opened with a positive share count
PositiveEntries ==
    \A i \in 1..Len(resps) :
        (Executed(resps[i]) /\ resps[i].mapped = "ENTRY") => resps[i].shares > 0

\* C1 as claimed: in every configuration, two consecutive well-formed ENTRY
\* signals for a FLAT symbol leave exactly one LONG Position and give exactly
\* one executed entry and exactly one ignored response (stated for the runs
\* in which every entry got a positive share count).
C1_Original ==
    (TwoConsecutive("ENTRY", "FLAT") /\ PositiveEntries) =>
        /\ Cardinality(LongRows(Last.symbol)) = 1
        /\ Executed(Prev) # Executed(Last)
        /\ Prev.ignored # Last.ignored

\* C1: with the ledger enabled, two consecutive well-formed ENTRY signals for
\* a FLAT symbol, neither blocked by a cooldown and the first not failed by
\* the broker, leave exactly one LONG Position: the first is executed and the
\* second is answered ignored, "Already in position (LONG)".
C1_Idempotent ==
    ( /\ TwoConsecutive("ENTRY", "FLAT")
      /\ cfg.SHEETS_ON
      /\ Prev.kind # "cooldown" /\ Last.kind # "cooldown"
      /\ Prev.kind # "order_failed" )
    => /\ Cardinality(LongRows(Last.symbol)) = 1
       /\ Executed(Prev) /\ ~Prev.ignored
       /\ ~Executed(Last) /\ Last.ignored
       /\ Last.reason = "Already in position (LONG)"

C1_Witness ==
    /\ TwoConsecutive("ENTRY", "FLAT")
    /\ cfg.SHEETS_ON
    /\ Executed(Prev)
    /\ Last.ignored
    /\ Cardinality(LongRows(Last.symbol)) = 1

\* C2 as claimed: two consecutive well-formed EXIT signals for a LONG symbol
\* append exactly one Trade record, leave the position FLAT and give exactly
\* one ignored response (stated for the runs in which every entry got a
\* positive share count).
C2_Original ==
    (TwoConsecutive("EXIT", "LONG") /\ PositiveEntries) =>
        /\ Last.trades = TradesBeforeLastTwo + 1
        /\ LedgerState(positions, Last.symbol) = "FLAT"
        /\ Prev.ignored # Last.ignored

\* C2: two consecutive well-formed EXIT signals for a LONG symbol, neither
\* blocked by a cooldown and the first not failed by the broker: the first is
\* executed and appends one Trade record (none in live mode when the stored
\* share count is 0), the position is left FLAT, and the second is answered
\* ignored, "No open position to exit", and appends nothing.
C2_Idempotent ==
    ( /\ TwoConsecutive("EXIT", "LONG")
      /\ Prev.kind # "cooldown" /\ Last.kind # "cooldown"
      /\ Prev.kind # "order_failed" )
    => /\ Executed(Prev) /\ ~Prev.ignored
       /\ Prev.trades = TradesBeforeLastTwo
                          + (IF ~cfg.DRY_RUN /\ Prev.shares = 0 THEN 0 ELSE 1)
       /\ Last.trades = Prev.trades
       /\ LedgerState(positions, Last.symbol) = "FLAT"
       /\ ~Executed(Last) /\ Last.ignored
       /\ Last.reason = "No open position to exit"

C2_Witness ==
    /\ TwoConsecutive("EXIT", "LONG")
    /\ Executed(Prev)
    /\ Last.ignored
    /\ Last.trades = TradesBeforeLastTwo + 1
    /\ LedgerState(positions, Last.symbol) = "FLAT"

\* C4: in dry-run mode no order is sent to the broker and no token is
\* requested, whatever has been handled.
C4_DryRunNoBroker ==
    cfg.DRY_RUN => (orders = << >> /\ token_refreshes = 0)

C4_Witness ==
    /\ cfg.DRY_RUN
    /\ Len(resps) >= 2
    /\ Executed(Prev) /\ Prev.mapped = "ENTRY"
    /\ Executed(Last) /\ Last.mapped = "EXIT"

\* the requests handled so far all had their broker orders accepted
AllAccepted == \A i \in 1..Len(resps) : resps[i].kind # "order_failed"

\* the outcome class of a response
ClassOf(resp) ==
    CASE resp.kind \in {"dry_run", "live"} -> "executed"
      [] resp.kind = "cooldown" -> "cooldown"
      [] resp.ignored -> "ignored"
      [] OTHER -> "rejected"

PositionView(rows) ==
    [i \in 1..Len(rows) |->
        [symbol |-> rows[i].symbol, state |-> rows[i].state,
         entry_price |-> rows[i].entry_price, shares |-> rows[i].shares]]

TradeView(rows) ==
    [i \in 1..Len(rows) |->
        [trade_id |-> rows[i].trade_id, symbol |-> rows[i].symbol,
         entry_price |-> rows[i].entry_price, exit_price |-> rows[i].exit_price,
         shares |-> rows[i].shares, gross_pnl |-> rows[i].gross_pnl]]

\* what the claim compares of a handled request
DecisionView(r) ==
    [class |-> ClassOf(r.loc.resp),
     positions |-> PositionView(r.env.positions),
     trades |-> TradeView(r.env.pnl),
     last_global_ts |-> r.env.last_global_ts,
     last_symbol_ts |-> r.env.last_symbol_ts]

\* the request handled from the present state with DRY_RUN set to dry
InMode(dry, req) == tv([E0 EXCEPT !.cfg.DRY_RUN = dry], NewRequest(req))

\* C6: dry-run and live mode decide alike.  In every state reached with all
\* broker orders accepted, a signal whose order the broker accepts gets the
\* same outcome class in both modes and leaves the same Positions
\* (state, entry price, shares), Trade records and cooldown timestamps;
\* a sequence of signals is then handled alike step by step.
C6_SameDecisions ==
    (InFlight = {} /\ AllAccepted) =>
        \A req \in Requests :
            req.broker = "ok" =>
                DecisionView(InMode(TRUE, req)) = DecisionView(InMode(FALSE, req))

\* C6 for the signals that find no position opened with a zero share count
C6_SameDecisionsPositive ==
    (InFlight = {} /\ AllAccepted) =>
        \A req \in Requests :
            (req.broker = "ok"
             /\ \A i \in 1..Len(positions) : positions[i].shares # Cell(0))
            => DecisionView(InMode(TRUE, req)) = DecisionView(InMode(FALSE, req))

EntryFieldsCleared(row) ==
    /\ row.entry_time = Empty /\ row.entry_price = Empty
    /\ row.shares = Empty /\ row.position_value = Empty
    /\ row.stop_price = Empty /\ row.risk_usd = Empty

AfterExitFlat ==
    (Len(resps) > 0 /\ Executed(Last) /\ Last.mapped = "EXIT")
    => LedgerState(positions, Last.symbol) = "FLAT"

TradesIn(rows, s) == Cardinality({i \in 1..Len(rows) : rows[i].symbol = s})
EntriesIn(rs, s) ==
    Cardinality({i \in 1..Len(rs) :
                    Executed(rs[i]) /\ rs[i].mapped = "ENTRY" /\ rs[i].symbol = s})

\* C8: the PnL tab only grows, by one row at a time and only by an EXIT that
\* found the symbol's Position LONG; a symbol never has more Trade records
\* than executed ENTRYs.
C8_TradeRecords ==
    [][ /\ Len(pnl') >= Len(pnl)
        /\ SubSeq(pnl', 1, Len(pnl)) = pnl
        /\ Len(pnl') > Len(pnl) =>
              /\ Len(pnl') = Len(pnl) + 1
              /\ Len(resps') = Len(resps) + 1
              /\ resps'[Len(resps')].mapped = "EXIT"
              /\ resps'[Len(resps')].pre = "LONG"
              /\ resps'[Len(resps')].symbol = pnl'[Len(pnl')].symbol
        /\ \A s \in Symbols : TradesIn(pnl', s) <= EntriesIn(resps', s) ]_vars

C8_Witness ==
    /\ Len(pnl) >= 1
    /\ Len(resps) = MaxRequests
    /\ Last.mapped = "EXIT" /\ Last.ignored

\* the request handled by this step was blocked by the cooldown check
BlockedStep ==
    Len(resps') = Len(resps) + 1 /\ resps'[Len(resps')].kind = "cooldown"

\* C10: a request blocked by the cooldown check leaves the Positions tab
\* unread and unchanged, and changes neither the Trade records, nor the
\* cooldown timestamps, nor anything at the broker.
C10_BlockedTouchesNothing ==
    [][ BlockedStep =>
          UNCHANGED <<positions, pos_reads, pnl, daily, last_global_ts, last_symbol_ts,
                      orders, token_refreshes>> ]_vars

C10_Witness ==
    /\ Len(resps) >= 2
    /\ Last.kind = "cooldown"
    /\ LedgerState(positions, Last.symbol) = "LONG"
    /\ Len(raw) = Len(resps)

\* the broker answers of the request handled by this step
BrokerFailedStep ==
    /\ Len(resps') = Len(resps) + 1
    /\ token_refreshes' > token_refreshes
    /\ (Len(orders') = Len(orders) \/ ~orders'[Len(orders')].ok)
BrokerAcceptedStep ==
    /\ Len(orders') = Len(orders) + 1
    /\ orders'[Len(orders')].ok

\* C5: in live mode a request whose broker submission fails is answered 500
\* and leaves the Positions and PnL tabs as they were; the tabs change only
\* in a request whose order the broker accepted.
C5_FailedOrderWritesNothing ==
    [][ ~cfg.DRY_RUN =>
          /\ BrokerFailedStep =>
                /\ resps'[Len(resps')].code = 500
                /\ UNCHANGED <<positions, pnl>>
          /\ (positions' # positions \/ pnl' # pnl) => BrokerAcceptedStep ]_vars

C5_Witness ==
    /\ ~cfg.DRY_RUN
    /\ Len(resps) >= 2
    /\ Last.kind = "order_failed" /\ Last.mapped = "EXIT"
    /\ LedgerState(positions, Last.symbol) = "LONG"

\* thread t has passed the state check with an ENTRY and is executing it
ExecutingEntry(t) ==
    /\ threads[t].pc \in {"broker", "pos_set_read", "pos_set_write"}
    /\ threads[t].mapped = "ENTRY"

\* C3: requests for one symbol are serialized.  Two requests handled
\* concurrently are never both past the state check executing an ENTRY for
\* the same symbol.
C3_Serialized ==
    \A t1, t2 \in Threads :
        (t1 # t2 /\ ExecutingEntry(t1) /\ ExecutingEntry(t2))
        => threads[t1].symbol # threads[t2].symbol

\* C9: the Positions tab holds at most one row per symbol.
C9_OneRowPerSymbol ==
    \A i, j \in 1..Len(positions) :
        positions[i].symbol = positions[j].symbol => i = j

-----------------------------------------------------------------------------
(* Cooldown guard *)

\* C11: a request blocked by an active cooldown is answered with status 429,
\* not with the 200 of the accepted and the ignored outcomes.
C11_ThrottleStatus ==
    \A i \in 1..Len(resps) :
        resps[i].kind = "cooldown" => (resps[i].code = 429 /\ ~resps[i].ok)

\* this step handles a request from its arrival to its response
HandledStep == Len(resps') = Len(resps) + 1
Answer == resps'[Len(resps')]

\* the request arrives inside the global cooldown window
InGlobalWindow ==
    cfg.GLOBAL_COOLDOWN_SEC > 0 /\ now - last_global_ts < cfg.GLOBAL_COOLDOWN_SEC

\* the request reached the cooldown check: it is a POST with a JSON body whose
\* fields parse, with a symbol, the long side and a supported event
ReachedCooldownCheck(r) == r.kind \notin {"method", "bad_json", "unhandled", "rejected"}

\* C12 as claimed: with a global cooldown, any request arriving inside the
\* window opened by the last accepted request is throttled.
C12_Original ==
    [][ (HandledStep /\ InGlobalWindow) => Answer.kind = "cooldown" ]_vars

\* C12: with a global cooldown of G > 0 seconds, a request that reaches the
\* cooldown check less than G seconds after the last accepted request is
\* throttled, whatever its symbol: it is not executed, and no Position,
\* Trade record or order comes of it.
C12_GlobalCooldown ==
    [][ (HandledStep /\ InGlobalWindow /\ ReachedCooldownCheck(Answer))
        => /\ Answer.kind = "cooldown"
           /\ Answer.reason = "global"
           /\ UNCHANGED <<positions, pnl, orders>> ]_vars

\* an ENTRY for A is executed, and an ENTRY for B arriving a second later,
\* inside the window, is blocked
C12_Witness ==
    /\ cfg.GLOBAL_COOLDOWN_SEC = CooldownSec
    /\ Len(resps) >= 2
    /\ Executed(Prev) /\ Prev.mapped = "ENTRY" /\ Prev.symbol = "A"
    /\ Last.kind = "cooldown" /\ Last.mapped = "ENTRY" /\ Last.symbol = "B"
    /\ now = last_global_ts + 1
    /\ LedgerState(positions, "B") = "FLAT"

\* the request was accepted for processing: it passed the cooldown check, the
\* state check and the price check
Accepted(r) == r.kind \in {"dry_run", "live", "order_failed"}

\* C13: the cooldown timestamps change only in a request accepted for
\* processing, which sets the global timestamp and the timestamp of its
\* symbol to the current time; a request rejected, blocked by a cooldown,
\* ignored by the state check or failed for a missing price changes neither,
\* and no timestamp changes between requests.
C13_MarkOnlyOnAccept ==
    [][ /\ (HandledStep /\ ~Accepted(Answer))
            => UNCHANGED <<last_global_ts, last_symbol_ts>>
        /\ (HandledStep /\ Accepted(Answer))
            => /\ last_global_ts' = now
               /\ DOMAIN last_symbol_ts' = DOMAIN last_symbol_ts \cup {Answer.symbol}
               /\ \A s \in DOMAIN last_symbol_ts' :
                      last_symbol_ts'[s] = IF s = Answer.symbol THEN now
                                           ELSE last_symbol_ts[s]
        /\ ~HandledStep => UNCHANGED <<last_global_ts, last_symbol_ts>> ]_vars

\* a request was accepted, time passed, and requests rejected, ignored and
\* failed for a missing price have left the timestamps where they were
C13_Witness ==
    /\ Len(resps) = MaxRequests
    /\ Accepted(resps[1])
    /\ Prev.kind \in {"rejected", "missing_price"}
    /\ Last.ignored
    /\ last_global_ts = StartTime /\ now > StartTime
    /\ last_symbol_ts = (Last.symbol :> StartTime)

-----------------------------------------------------------------------------
(* Sizing engine *)

\* C14: an ENTRY whose price is <= 0 fails sizing.  No executed ENTRY has a
\* zero share count, no LONG Position is written with zero shares or with a
\* price <= 0, and no order for zero shares is sent.
C14_InvalidPriceFails ==
    /\ PositiveEntries
    /\ \A i \in 1..Len(positions) :
           positions[i].state = "LONG" =>
               (positions[i].shares # Cell(0) /\ positions[i].entry_price[1] > 0)
    /\ \A i \in 1..Len(orders) : orders[i].shares > 0

\* the rows of the raw log written by simulated ENTRYs: each records the
\* price of the signal and what calc_shares returned for it
SizedRows == {i \in 1..Len(raw) : raw[i].status = "dry_run"}

\* C15: for every price > 0, every stop percentage and every configuration
\* the share count computed by calc_shares is at least 1.
C15_SharesAtLeastOne ==
    \A i \in SizedRows : raw[i].price[1] > 0 => raw[i].shares[1] >= 1

\* C15 for the fixed-notional mode and, in risk-sizing mode, a positive stop
\* distance
C15_SharesAtLeastOnePositiveStop ==
    \A i \in SizedRows :
        (raw[i].price[1] > 0 /\ raw[i].note # "invalid_stop_dist") => raw[i].shares[1] >= 1

ZeroStopPct(req) == req.risk_stop_pct.t \in {"num", "numstr"} /\ req.risk_stop_pct.v = 0

\* C17: with risk sizing enabled, an ENTRY for a FLAT symbol whose
\* risk_stop_pct is 0 is executed and sized by the fixed-notional rule,
\* shares = max(1, floor(POSITION_DOLLARS / price)).
C17_ZeroStopFallsBack ==
    (cfg.USE_RISK_SIZING /\ InFlight = {}) =>
        \A req \in SizingRequests :
            ( /\ ZeroStopPct(req)
              /\ map_event(upper_strip(req.event)) = "ENTRY"
              /\ price_of(req.price).has /\ price_of(req.price).v > 0
              /\ LedgerState(positions, upper_strip(req.symbol)) = "FLAT" )
            => LET r == tv(E0, NewRequest(req))
               IN  /\ r.loc.resp.code = 200 /\ Executed(r.loc.resp)
                   /\ r.loc.resp.shares =
                          Max(1, FloorDiv(cfg.POSITION_DOLLARS, price_of(req.price).v))

-----------------------------------------------------------------------------
(* Profit and loss, audit log, normalization *)

\* the row of the Positions tab for the symbol, before the step
StoredRow(s) ==
    positions[CHOOSE i \in 1..Len(positions) :
                 /\ positions[i].symbol = s
                 /\ \A j \in 1..Len(positions) : positions[j].symbol = s => i <= j]

\* this step is an executed EXIT that appends a Trade record
TradeStep ==
    /\ HandledStep /\ Executed(Answer) /\ Answer.mapped = "EXIT"
    /\ Len(pnl') = Len(pnl) + 1

\* C18: on an executed EXIT the gross P&L of the Trade record is
\* (exit price - entry price) * shares, with the exit price of the signal and
\* the entry price and shares stored in the Position by the ENTRY; the
\* response of a simulated EXIT reports the same amount.
C18_GrossPnl ==
    [][ TradeStep =>
          LET row == StoredRow(Answer.symbol)
              trade == pnl'[Len(pnl')]
              exit_price == raw'[Len(raw')].price[1]
          IN  /\ row.state = "LONG"
              /\ trade.entry_price = row.entry_price[1]
              /\ trade.shares = row.shares[1]
              /\ trade.exit_price = exit_price
              /\ trade.gross_pnl = (exit_price - row.entry_price[1]) * row.shares[1]
              /\ cfg.DRY_RUN => Answer.gross_pnl = trade.gross_pnl ]_vars

\* entry at 10.00 with 100 shares, exit at 10.50: a gross P&L of 50.00
C18_Witness ==
    /\ Len(resps) >= 2
    /\ Executed(Prev) /\ Prev.mapped = "ENTRY" /\ Prev.shares = 100
    /\ Executed(Last) /\ Last.mapped = "EXIT"
    /\ Len(pnl) >= 1
    /\ pnl[Len(pnl)].entry_price = 1000 /\ pnl[Len(pnl)].exit_price = 1050
    /\ pnl[Len(pnl)].shares = 100 /\ pnl[Len(pnl)].gross_pnl = 5000
    /\ cfg.DRY_RUN /\ Last.gross_pnl = 5000

\* C19: with Sheets logging on, every handled request appends at least one
\* row to the raw log before its response, and the rows already there are
\* neither changed nor removed.
C19_EveryRequestLogged ==
    [][ cfg.SHEETS_ON =>
          /\ Len(raw') >= Len(raw) /\ SubSeq(raw', 1, Len(raw)) = raw
          /\ HandledStep => Len(raw') > Len(raw) ]_vars

\* the signal fails normalization: no symbol, a side other than long, or an
\* event that is none of BUY, ENTRY, SELL, EXIT
FailsNormalization(req) ==
    \/ upper_strip(req.symbol) = ""
    \/ lower_strip(req.side) # "long"
    \/ map_event(upper_strip(req.event)) = ""

\* what the claim says a rejected request leaves alone
Untouched(E) ==
    <<E.positions, E.pnl, E.last_global_ts, E.last_symbol_ts, E.orders, E.token_refreshes>>

\* C20: in every state, a request that fails normalization is answered with
\* a 4xx status and changes no Position, no Trade record, no cooldown
\* timestamp and sends nothing to the broker.
C20_RejectedUntouched ==
    InFlight = {} =>
        \A req \in Requests :
            FailsNormalization(req) =>
                LET r == tv(E0, NewRequest(req))
                IN  /\ r.loc.resp.code \in 400..499
                    /\ Untouched(r.env) = Untouched(E0)

\* C20 for the requests whose risk_stop_pct float() accepts
C20_RejectedUntouchedParsed ==
    InFlight = {} =>
        \A req \in Requests :
            (FailsNormalization(req) /\ ~stop_pct_raises(req.risk_stop_pct)) =>
                LET r == tv(E0, NewRequest(req))
                IN  /\ r.loc.resp.code = 400
                    /\ r.env = E0

-----------------------------------------------------------------------------
(* Stop percentage default, order of the checks *)

\* the outcome of a request: its response and everything it changed
Outcome(r) == <<r.loc.resp, r.env>>

\* C21: a signal whose risk_stop_pct is absent or is a string float() rejects
\* is handled, in every state, exactly as the same signal carrying the
\* default stop percentage.
C21_DefaultStopPct ==
    InFlight = {} =>
        \A req \in Requests :
            req.risk_stop_pct.t \in {"absent", "str"} =>
                Outcome(tv(E0, NewRequest(req)))
                = Outcome(tv(E0, NewRequest([req EXCEPT !.risk_stop_pct = Num(DefaultStopPct)])))

\* C21 for the absent stop percentage alone
C21_AbsentStopPct ==
    InFlight = {} =>
        \A req \in Requests :
            req.risk_stop_pct.t = "absent" =>
                Outcome(tv(E0, NewRequest(req)))
                = Outcome(tv(E0, NewRequest([req EXCEPT !.risk_stop_pct = Num(DefaultStopPct)])))

\* a cooldown, global or of the symbol s, is active
CooldownActive(s) ==
    \/ InGlobalWindow
    \/ /\ cfg.SYMBOL_COOLDOWN_SEC > 0
       /\ now - (IF s \in DOMAIN last_symbol_ts THEN last_symbol_ts[s] ELSE 0)
              < cfg.SYMBOL_COOLDOWN_SEC

\* the state check would ignore the request: an ENTRY for a LONG symbol or an
\* EXIT for a symbol that is not LONG
Duplicate(r) ==
    \/ r.mapped = "ENTRY" /\ r.pre = "LONG"
    \/ r.mapped = "EXIT" /\ r.pre # "LONG"

\* C22: the cooldown check comes before the state check.  A request that
\* reaches the cooldown check while a cooldown is active gets the cooldown
\* outcome, also when the state check would have ignored it, and the
\* Positions tab is not read for it; an ignored outcome is only given when no
\* cooldown is active.
C22_CooldownBeforeState ==
    [][ HandledStep =>
          /\ (ReachedCooldownCheck(Answer) /\ CooldownActive(Answer.symbol))
              => (Answer.kind = "cooldown" /\ ~Answer.ignored /\ pos_reads' = pos_reads)
          /\ Answer.ignored => ~CooldownActive(Answer.symbol) ]_vars

\* a duplicate ENTRY for a LONG symbol and an EXIT for a FLAT symbol are both
\* answered with the cooldown outcome
C22_Witness ==
    /\ Len(resps) = MaxRequests
    /\ Executed(resps[1]) /\ resps[1].mapped = "ENTRY"
    /\ Prev.kind = "cooldown" /\ Prev.mapped = "ENTRY" /\ Prev.pre = "LONG"
    /\ Last.kind = "cooldown" /\ Last.mapped = "EXIT" /\ Last.pre = "FLAT"

\* C23: in dry-run mode a request without a price that passed the cooldown
\* check is answered ignored when it is a duplicate ENTRY or an EXIT for a
\* symbol that is not LONG, and otherwise fails with 400 missing_price; either
\* way the Positions tab, the Trade records and both cooldown timestamps are
\* left as they were, and nothing is asked of the broker.
C23_MissingPrice ==
    [][ ( /\ cfg.DRY_RUN /\ HandledStep
          /\ ReachedCooldownCheck(Answer) /\ Answer.kind # "cooldown"
          /\ ~Answer.priced )
        => /\ IF Duplicate(Answer)
              THEN Answer.ignored /\ Answer.code = 200
              ELSE Answer.kind = "missing_price" /\ Answer.code = 400 /\ ~Answer.ok
           /\ UNCHANGED <<positions, pnl, daily, last_global_ts, last_symbol_ts,
                          orders, token_refreshes>> ]_vars

\* after an ENTRY, an ENTRY without a price is ignored as a duplicate and an
\* EXIT without a price fails for the missing price, the position still LONG
C23_Witness ==
    /\ cfg.DRY_RUN
    /\ Len(resps) = MaxRequests
    /\ Executed(resps[1]) /\ resps[1].mapped = "ENTRY"
    /\ ~Prev.priced /\ Prev.mapped = "ENTRY" /\ Prev.ignored
    /\ ~Last.priced /\ Last.mapped = "EXIT" /\ Last.kind = "missing_price"
    /\ LedgerState(positions, Last.symbol) = "LONG"
    /\ last_global_ts = StartTime /\ now > StartTime

-----------------------------------------------------------------------------
(* Live execution, disabled ledger *)

\* the request handled before this step was a live request whose order failed
AfterFailedOrder == Len(resps) >= 1 /\ Last.kind = "order_failed"

\* C24: a live request whose broker order fails has started the cooldown
\* window, though it wrote no Position and no order was accepted: both
\* timestamps are set to the time of the attempt, and with a cooldown
\* configured a retry of the same signal inside the window is throttled and
\* sends nothing to the broker.
C24_FailedOrderStartsCooldown ==
    [][ HandledStep =>
          /\ (~cfg.DRY_RUN /\ Answer.kind = "order_failed")
              => /\ last_global_ts' = now
                 /\ last_symbol_ts'[Answer.symbol] = now
                 /\ UNCHANGED <<positions, pnl>>
                 /\ \A i \in (Len(orders) + 1)..Len(orders') : ~orders'[i].ok
          /\ ( /\ AfterFailedOrder
                /\ Answer.symbol = Last.symbol /\ Answer.mapped = Last.mapped
                /\ ReachedCooldownCheck(Answer)
                /\ \/ cfg.GLOBAL_COOLDOWN_SEC > 0
                      /\ now - last_global_ts < cfg.GLOBAL_COOLDOWN_SEC
                   \/ cfg.SYMBOL_COOLDOWN_SEC > 0
                      /\ now - last_symbol_ts[Answer.symbol] < cfg.SYMBOL_COOLDOWN_SEC )
              => /\ Answer.kind = "cooldown"
                 /\ UNCHANGED <<orders, token_refreshes, positions, pnl>> ]_vars

\* an ENTRY fails at the broker and its retry a second later is throttled
C24_Witness ==
    /\ ~cfg.DRY_RUN /\ cfg.SHEETS_ON
    /\ Len(resps) = 2
    /\ Prev.kind = "order_failed" /\ Prev.mapped = "ENTRY"
    /\ Last.kind = "cooldown" /\ Last.mapped = "ENTRY" /\ Last.symbol = Prev.symbol
    /\ now = StartTime + 1 /\ last_global_ts = StartTime
    /\ positions = << >>
    /\ \A i \in 1..Len(orders) : ~orders[i].ok

\* C25: a live EXIT submits at most one order, a SELL for the symbol and for
\* the number of shares stored in its LONG Position, whatever the price of
\* the EXIT signal.
C25_SellsStoredShares ==
    [][ (~cfg.DRY_RUN /\ HandledStep /\ Answer.mapped = "EXIT")
        => /\ Len(orders') <= Len(orders) + 1
           /\ Len(orders') = Len(orders) + 1
              => LET order == orders'[Len(orders')]
                     row == StoredRow(Answer.symbol)
                 IN  /\ row.state = "LONG"
                     /\ order.action = "SELL"
                     /\ order.symbol = Answer.symbol
                     /\ order.shares = row.shares[1] ]_vars

\* entry at 10.00 sized to 100 shares, exit at 10.50 (sized afresh: 95
\* shares): the SELL order is for 100 shares
C25_Witness ==
    /\ ~cfg.DRY_RUN
    /\ Len(resps) >= 2 /\ Len(orders) >= 2
    /\ Executed(Prev) /\ Prev.mapped = "ENTRY" /\ Prev.shares = 100
    /\ Executed(Last) /\ Last.mapped = "EXIT"
    /\ raw[Len(raw)].price = Cell(1050)
    /\ calc_shares(cfg, 1050, DefaultStopPct).shares = 95
    /\ orders[Len(orders)].action = "SELL" /\ orders[Len(orders)].shares = 100

\* what the claim says of the requests handled with the ledger disabled
EntriesGoToExecution(done(_)) ==
    \A i \in 1..Len(resps) :
        LET r == resps[i]
        IN  /\ (WellFormed(r) /\ r.mapped = "ENTRY" /\ r.kind # "cooldown")
                => (~r.ignored /\ done(r))
            /\ (ReachedCooldownCheck(r) /\ r.mapped = "EXIT" /\ r.kind # "cooldown")
                => (r.ignored /\ r.reason = "No open position to exit")

NothingStored ==
    /\ positions = << >> /\ pos_reads = 0
    /\ pnl = << >>
    /\ \A i \in 1..Len(orders) : orders[i].action # "SELL"

\* C26 as claimed: with the ledger disabled every well-formed ENTRY that
\* passes the cooldown is executed and every EXIT that passes it is ignored.
C26_Original ==
    ~cfg.SHEETS_ON => (NothingStored /\ EntriesGoToExecution(Executed))

\* C26: with the ledger disabled no Position is read or stored; a well-formed
\* ENTRY that passes the cooldown is never ignored: it is executed, or in live
\* mode answered 500 when the broker fails its order; an EXIT that passes the
\* cooldown is ignored with "No open position to exit"; there is no Trade
\* record and no SELL order.
C26_LedgerDisabled ==
    ~cfg.SHEETS_ON => (NothingStored /\ EntriesGoToExecution(Accepted))

\* two ENTRYs for one symbol are both executed and the EXIT is ignored
C26_Witness ==
    /\ ~cfg.SHEETS_ON
    /\ Len(resps) = MaxRequests
    /\ Executed(resps[1]) /\ resps[1].mapped = "ENTRY"
    /\ Executed(Prev) /\ Prev.mapped = "ENTRY" /\ Prev.symbol = resps[1].symbol
    /\ Last.mapped = "EXIT" /\ Last.ignored /\ Last.symbol = Prev.symbol
    /\ NothingStored


=============================================================================
